---------------------------- MODULE Spec2Model ----------------------------
(***************************************************************************)
(* A model of the cooklang-go parser (src/parser.go, lines 1-718).         *)
(*                                                                         *)
(* A Go string is modelled as a sequence of one-character strings; every   *)
(* character of the model's alphabets is a one-byte rune, so a byte index  *)
(* of the source is a position of the sequence (0-based, as in Go).        *)
(* A float64 is modelled as a normalised fraction <<n, d>>.                *)
(* A call that can return an error or panic yields a record whose field    *)
(* st is "ok", "err" (an error value was returned) or "panic" (a run-time  *)
(* panic: slice bounds out of range).                                      *)
(***************************************************************************)
EXTENDS Integers, Sequences, FiniteSets, TLC

\* ------------------------------------------------------------------------
\* Bounds of the model
\* ------------------------------------------------------------------------
MaxLineLen == 4

MaxLines == 3

MaxCalls == 2

MaxMetaLen == 5

MaxFMLines == 6

MaxBodyLen == 4

MaxCommentLen == 3

MaxTokens == 3

MaxPieces == 4

MaxBufferLines == 3

\* ------------------------------------------------------------------------
\* Constants of the program
\* ------------------------------------------------------------------------
commentsLinePrefix == <<"-", "-">>

metadataLinePrefix == <<">", ">">>

metadataValueSeparator == <<":">>

prefixIngredient == "@"

prefixCookware == "#"

prefixTimer == "~"

prefixBlockComment == "["

prefixInlineComment == "-"

ItemTypeText == "text"

ItemTypeComment == "comment"

ItemTypeCookware == "cookware"

ItemTypeIngredient == "ingredient"

ItemTypeTimer == "timer"

CommentTypeLine == 1

CommentTypeBlock == 2

CommentTypeEndLine == 3

frontMatterDelimiter == <<"-", "-", "-">>

\* ------------------------------------------------------------------------
\* Go values
\* ------------------------------------------------------------------------
\* The nil pointer / nil error.
Nil == "nil"

\* utf8.RuneError, what utf8.DecodeRuneInString returns for the empty string.
RuneError == "RuneError"

\* The characters unicode.IsSpace accepts (strings.TrimSpace).
SpaceChars == {" ", "\t"}

Digits == {"0", "1", "2", "3", "4", "5", "6", "7", "8", "9"}

DigitVal == ("0" :> 0) @@ ("1" :> 1) @@ ("2" :> 2) @@ ("3" :> 3) @@ ("4" :> 4) @@
            ("5" :> 5) @@ ("6" :> 6) @@ ("7" :> 7) @@ ("8" :> 8) @@ ("9" :> 9)

Ok(v) == [st |-> "ok", val |-> v, err |-> Nil]

Err(e) == [st |-> "err", val |-> Nil, err |-> e]

Panic == [st |-> "panic", val |-> Nil, err |-> "slice bounds out of range"]

\* s[lo:hi] is legal (does not panic) iff 0 <= lo <= hi <= len(s).
SliceOK(s, lo, hi) == 0 <= lo /\ lo <= hi /\ hi <= Len(s)

\* s[lo:hi]
Slice(s, lo, hi) == SubSeq(s, lo + 1, hi)

\* s[lo:]
SliceFrom(s, lo) == SubSeq(s, lo + 1, Len(s))

\* strings.HasPrefix
HasPrefix(s, p) == Len(s) >= Len(p) /\ SubSeq(s, 1, Len(p)) = p

\* strings.Index: the 0-based index of the first occurrence of sub, or -1.
Index(s, sub) ==
    LET hits == {i \in 0..(Len(s) - Len(sub)) : SubSeq(s, i + 1, i + Len(sub)) = sub}
    IN IF hits = {} THEN -1 ELSE CHOOSE i \in hits : \A j \in hits : i <= j

\* strings.TrimRight(s, " ")
RECURSIVE TrimRight(_, _)
TrimRight(s, cutset) ==
    IF s # <<>> /\ s[Len(s)] \in cutset THEN TrimRight(SubSeq(s, 1, Len(s) - 1), cutset)
    ELSE s

RECURSIVE TrimLeft(_, _)
TrimLeft(s, cutset) ==
    IF s # <<>> /\ s[1] \in cutset THEN TrimLeft(Tail(s), cutset) ELSE s

\* strings.TrimSpace
TrimSpace(s) == TrimLeft(TrimRight(s, SpaceChars), SpaceChars)

\* peek: the first rune of s, RuneError when s is empty.
peek(s) == IF s = <<>> THEN RuneError ELSE s[1]

\* ------------------------------------------------------------------------
\* float64 values as fractions, strconv.ParseFloat and strconv.Atoi
\* ------------------------------------------------------------------------
RECURSIVE GCD(_, _)
GCD(a, b) == IF b = 0 THEN a ELSE GCD(b, a % b)

Abs(n) == IF n < 0 THEN -n ELSE n

Sign(n) == IF n < 0 THEN -1 ELSE IF n = 0 THEN 0 ELSE 1

\* float64(n) / float64(d): a division by zero gives +Inf, -Inf or NaN,
\* written <<1, 0>>, <<-1, 0>>, <<0, 0>>.
Frac(n, d) ==
    IF d = 0 THEN <<Sign(n), 0>>
    ELSE LET g == GCD(Abs(n), Abs(d))
         IN <<(Sign(d) * n) \div g, Abs(d) \div g>>

Float(n) == <<n, 1>>

RECURSIVE DigitsVal(_)
DigitsVal(s) == IF s = <<>> THEN 0 ELSE 10 * DigitsVal(SubSeq(s, 1, Len(s) - 1)) + DigitVal[s[Len(s)]]

RECURSIVE Pow10(_)
Pow10(k) == IF k = 0 THEN 1 ELSE 10 * Pow10(k - 1)

AllDigits(s) == \A i \in 1..Len(s) : s[i] \in Digits

\* strconv.Atoi: an optional sign and at least one decimal digit (leading
\* zeros are accepted).
Atoi(s) ==
    LET signed == s # <<>> /\ s[1] \in {"+", "-"}
        body == IF signed THEN Tail(s) ELSE s
    IN IF body # <<>> /\ AllDigits(body)
       THEN [ok |-> TRUE, val |-> (IF signed /\ s[1] = "-" THEN -1 ELSE 1) * DigitsVal(body)]
       ELSE [ok |-> FALSE, val |-> 0]

\* The value of the decimal  [-] ip [. fp]  and whether it is one.
decimalValue(negative, ip, fp) ==
    IF AllDigits(ip) /\ AllDigits(fp) /\ Len(ip) + Len(fp) > 0
    THEN [ok |-> TRUE,
          val |-> Frac((IF negative THEN -1 ELSE 1)
                         * (DigitsVal(ip) * Pow10(Len(fp)) + DigitsVal(fp)),
                       Pow10(Len(fp)))]
    ELSE [ok |-> FALSE, val |-> <<0, 1>>]

unsignedFloat(negative, body, dot) ==
    decimalValue(negative,
                 IF dot = -1 THEN body ELSE Slice(body, 0, dot),
                 IF dot = -1 THEN <<>> ELSE SliceFrom(body, dot + 1))

\* strconv.ParseFloat(s, 64) on the decimal syntax: an optional sign, digits
\* with an optional point, at least one digit.  (Exponents, hexadecimal
\* floats, "inf" and "nan" need the letters e, x, p, i, n, f and the
\* underscore, none of which is in the alphabets of the model.)
ParseFloat(s) ==
    IF s # <<>> /\ s[1] \in {"+", "-"}
    THEN unsignedFloat(s[1] = "-", Tail(s), Index(Tail(s), <<".">>))
    ELSE unsignedFloat(FALSE, s, Index(s, <<".">>))

\* The three returns of getFloat: (isNumeric, value, err).
floatResult(r) ==
    [isNumeric |-> r.ok, f |-> r.val,
     err |-> IF r.ok THEN Nil ELSE "strconv.ParseFloat: invalid syntax"]

fractionResult(numerator, denominator) ==
    IF ~numerator.ok
    THEN [isNumeric |-> FALSE, f |-> Float(0), err |-> "strconv.Atoi: invalid syntax"]
    ELSE IF ~denominator.ok
    THEN [isNumeric |-> FALSE, f |-> Float(0), err |-> "strconv.Atoi: invalid syntax"]
    ELSE [isNumeric |-> TRUE, f |-> Frac(numerator.val, denominator.val), err |-> Nil]

getFloatTrimmed(trimmedValue, index) ==
    IF trimmedValue = <<>> THEN [isNumeric |-> FALSE, f |-> Float(0), err |-> Nil]
    ELSE IF index = -1 THEN floatResult(ParseFloat(trimmedValue))
    ELSE fractionResult(Atoi(TrimSpace(Slice(trimmedValue, 0, index))),
                        Atoi(TrimSpace(SliceFrom(trimmedValue, index + 1))))

getFloat(s) == getFloatTrimmed(TrimSpace(s), Index(TrimSpace(s), <<"/">>))

\* ------------------------------------------------------------------------
\* Amounts and the entities read from the raw text after a marker
\* ------------------------------------------------------------------------
\* amountOf without the fallback to the default value.
amountOfNoDefault(g, quantityText, unit, defaultValue) ==
    [IsNumeric |-> g.isNumeric, Quantity |-> g.f,
     QuantityRaw |-> TrimSpace(quantityText), Unit |-> unit]

\* The IngredientAmount of getAmount for a quantity text and a unit.
amountOf(g, quantityText, unit, defaultValue) ==
    [IsNumeric |-> g.isNumeric,
     Quantity |-> IF g.isNumeric THEN g.f ELSE defaultValue,
     QuantityRaw |-> TrimSpace(quantityText), Unit |-> unit]

amountAt(s, index, defaultValue) ==
    IF index = -1 THEN amountOf(getFloat(s), s, <<>>, defaultValue)
    ELSE amountOf(getFloat(Slice(s, 0, index)), Slice(s, 0, index),
                  TrimSpace(SliceFrom(s, index + 1)), defaultValue)

\* getAmount: never returns an error.
getAmount(s, defaultValue) ==
    IF s = <<>>
    THEN [IsNumeric |-> FALSE, Quantity |-> defaultValue, QuantityRaw |-> <<>>, Unit |-> <<>>]
    ELSE amountAt(s, Index(s, <<"%">>), defaultValue)

ingredientAt(s, index) ==
    IF index = -1
    THEN Ok([T |-> "Ingredient", Name |-> s,
             Amount |-> [IsNumeric |-> FALSE, Quantity |-> Float(1),
                         QuantityRaw |-> <<>>, Unit |-> <<>>]])
    ELSE IF ~SliceOK(s, index + 1, Len(s) - 1) THEN Panic
    ELSE Ok([T |-> "Ingredient", Name |-> Slice(s, 0, index),
             Amount |-> getAmount(Slice(s, index + 1, Len(s) - 1), Float(0))])

\* getIngredientFromRawString: s[index+1:len(s)-1] panics when the raw text
\* ends with its first "{".
getIngredientFromRawString(s) == ingredientAt(s, Index(s, <<"{">>))

cookwareOf(name, amount) ==
    Ok([T |-> "Cookware", IsNumeric |-> amount.IsNumeric, Name |-> name,
        Quantity |-> amount.Quantity, QuantityRaw |-> amount.QuantityRaw])

cookwareAt(s, index) ==
    IF index = -1
    THEN Ok([T |-> "Cookware", IsNumeric |-> FALSE, Name |-> s,
             Quantity |-> Float(1), QuantityRaw |-> <<>>])
    ELSE IF ~SliceOK(s, index + 1, Len(s) - 1) THEN Panic
    ELSE cookwareOf(Slice(s, 0, index), getAmount(Slice(s, index + 1, Len(s) - 1), Float(1)))

getCookwareFromRawString(s) == cookwareAt(s, Index(s, <<"{">>))

timerOf(name, s, index, g) ==
    IF g.err # Nil THEN Err(g.err)
    ELSE IF ~SliceOK(s, index + 1, Len(s) - 1) THEN Panic
    ELSE Ok([T |-> "Timer", Name |-> name,
             Duration |-> IF g.isNumeric THEN g.f ELSE Float(0),
             Unit |-> Slice(s, index + 1, Len(s) - 1)])

timerBody(name, s, index) ==
    IF index = -1
    THEN Ok([T |-> "Timer", Name |-> s, Duration |-> Float(0), Unit |-> <<>>])
    ELSE timerOf(name, s, index, getFloat(Slice(s, 0, index)))

timerAt(s, index) ==
    IF index > -1
    THEN timerBody(TrimSpace(Slice(s, 0, index)), SliceFrom(s, index + 1),
                   Index(SliceFrom(s, index + 1), <<"%">>))
    ELSE timerBody(<<>>, s, Index(s, <<"%">>))

\* getTimerFromRawString: the error of getFloat is returned, and the unit
\* s[index+1 : len(s)-1] panics when "%" is the last character.
getTimerFromRawString(s) == timerAt(s, Index(s, <<"{">>))

\* The loop of findNodeEndIndex from position index on: the end index, or -1.
RECURSIVE findNodeEndLoop(_, _)
findNodeEndLoop(line, index) ==
    IF index >= Len(line) THEN -1
    ELSE IF line[index + 1] \in {prefixCookware, prefixIngredient, prefixTimer, prefixBlockComment}
    THEN -1
    ELSE IF line[index + 1] = "}" THEN index + 1
    ELSE findNodeEndLoop(line, index + 1)

\* if endIndex == -1 { endIndex = strings.Index(line, " "); ... len(line) }
endIndexOr(endIndex, space, length) ==
    IF endIndex # -1 THEN endIndex
    ELSE IF space # -1 THEN space
    ELSE length

findNodeEndIndex(line) == endIndexOr(findNodeEndLoop(line, 1), Index(line, <<" ">>), Len(line))

\* getIngredient, getCookware, getTimer: (entity, endIndex, err)
ingredientNode(line, endIndex) ==
    IF ~SliceOK(line, 1, endIndex) THEN [r |-> Panic, endIndex |-> endIndex]
    ELSE [r |-> getIngredientFromRawString(Slice(line, 1, endIndex)), endIndex |-> endIndex]

getIngredient(line) == ingredientNode(line, findNodeEndIndex(line))

cookwareNode(line, endIndex) ==
    IF ~SliceOK(line, 1, endIndex) THEN [r |-> Panic, endIndex |-> endIndex]
    ELSE [r |-> getCookwareFromRawString(Slice(line, 1, endIndex)), endIndex |-> endIndex]

getCookware(line) == cookwareNode(line, findNodeEndIndex(line))

timerNode(line, endIndex) ==
    IF ~SliceOK(line, 1, endIndex) THEN [r |-> Panic, endIndex |-> endIndex]
    ELSE [r |-> getTimerFromRawString(Slice(line, 1, endIndex)), endIndex |-> endIndex]

getTimer(line) == timerNode(line, findNodeEndIndex(line))

blockCommentAt(s, index) ==
    IF index = -1 THEN [r |-> Err("invalid block comment"), skipNext |-> 0]
    ELSE IF ~SliceOK(s, 2, index) THEN [r |-> Panic, skipNext |-> 0]
    ELSE [r |-> Ok(TrimSpace(Slice(s, 2, index))), skipNext |-> index + 2]

\* getBlockComment: s[2:index] panics for "[-]", where "-]" is found at 1.
getBlockComment(s) == blockCommentAt(s, Index(s, <<"-", "]">>))

\* ------------------------------------------------------------------------
\* parseStepCB: the tokenizer of a direction line
\* ------------------------------------------------------------------------
\* The state of the loop is s = [buffer, directions, calls]: the two string
\* builders and the calls of cb made so far.  A call is recorded as
\* [item, from, to]: the item handed to cb and the part line[from:to] of the
\* line it was read from (for an entity, index and skipIndex; for a flushed
\* text, the buffer.Len() characters before index).  The callbacks of
\* parseRecipeLine never stop the scan and never fail, so cb's results are
\* not part of the state.
newText(v) == [T |-> "Text", Value |-> v]

Comment(type, value) == [T |-> "Comment", Type |-> type, Value |-> value]

\* flushBuffer without buffer.Reset().
flushBufferNoReset(s, index) ==
    IF Len(s.buffer) > 0
    THEN [s EXCEPT !.calls = Append(@, [item |-> newText(s.buffer),
                                         from |-> index - Len(s.buffer), to |-> index])]
    ELSE s

\* flushBuffer without the test buffer.Len() > 0.
flushBufferAlways(s, index) ==
    [s EXCEPT !.buffer = <<>>,
              !.calls = Append(@, [item |-> newText(s.buffer),
                                    from |-> index - Len(s.buffer), to |-> index])]

\* if buffer.Len() > 0 { cb(newText(buffer.String())); buffer.Reset() }
flushBuffer(s, index) ==
    IF Len(s.buffer) > 0
    THEN [s EXCEPT !.buffer = <<>>,
                   !.calls = Append(@, [item |-> newText(s.buffer),
                                         from |-> index - Len(s.buffer), to |-> index])]
    ELSE s

DigitChar == [d \in 0..9 |-> CHOOSE c \in Digits : DigitVal[c] = d]

RECURSIVE NatStr(_)
NatStr(n) == IF n < 10 THEN <<DigitChar[n]>> ELSE NatStr(n \div 10) \o <<DigitChar[n % 10]>>

RECURSIVE FracDigits(_, _, _)
FracDigits(r, d, k) ==
    IF r = 0 \/ k = 0 THEN <<>>
    ELSE <<DigitChar[(10 * r) \div d]>> \o FracDigits((10 * r) % d, d, k - 1)

\* fmt's %v of a float64 in the range printed without an exponent: the
\* integer part and, when there is one, the fraction (at most 16 digits).
FormatFloat(f) ==
    IF f[2] = 0
    THEN (IF f[1] > 0 THEN <<"+", "I", "n", "f">>
          ELSE IF f[1] < 0 THEN <<"-", "I", "n", "f">> ELSE <<"N", "a", "N">>)
    ELSE (IF f[1] < 0 THEN <<"-">> ELSE <<>>) \o NatStr(Abs(f[1]) \div f[2])
         \o (IF Abs(f[1]) % f[2] = 0 THEN <<>>
             ELSE <<".">> \o FracDigits(Abs(f[1]) % f[2], f[2], 16))

\* nodeDirections that writes the name of a timer too.
nodeDirectionsNamed(item) == item.Name

\* What an entity writes to directions: its name, or for a timer
\* fmt.Sprintf("%v %s", Duration, Unit).
nodeDirections(item) ==
    IF item.T = "Timer" THEN FormatFloat(item.Duration) \o <<" ">> \o item.Unit ELSE item.Name

\* A return of parseStepCB: (directions, err), with the calls of cb made.
stepResult(st, err, s) == [st |-> st, err |-> err, directions |-> s.directions, calls |-> s.calls]

\* The return after the loop: the remaining text is flushed.
stepEnd(s) == stepResult("ok", Nil, [s EXCEPT !.directions = TrimSpace(@)])

RECURSIVE parseStepLoop(_, _, _)

\* An ingredient, cookware or timer ahead; f is the state after the flush.
stepNode(line, index, f, node) ==
    IF node.r.st # "ok" THEN stepResult(node.r.st, node.r.err, f)
    ELSE parseStepLoop(line, index + node.endIndex,
             [f EXCEPT !.directions = @ \o nodeDirections(node.r.val),
                       !.calls = Append(@, [item |-> node.r.val,
                                             from |-> index, to |-> index + node.endIndex])])

\* A block comment ahead.
stepBlockComment(line, index, f, c) ==
    IF c.r.st # "ok" THEN stepResult(c.r.st, c.r.err, f)
    ELSE parseStepLoop(line, index + c.skipNext,
             [f EXCEPT !.calls = Append(@, [item |-> Comment(CommentTypeBlock, c.r.val),
                                             from |-> index, to |-> index + c.skipNext])])

\* stepEndLineComment that takes the comment from index + 1 on.
stepEndLineCommentShort(line, index, f) ==
    stepEnd([f EXCEPT !.calls =
                Append(@, [item |-> Comment(CommentTypeEndLine,
                                            TrimSpace(SliceFrom(line, index + 1))),
                           from |-> index, to |-> Len(line)])])

\* An end-line comment ahead: the loop is left.
stepEndLineComment(line, index, f) ==
    stepEnd([f EXCEPT !.calls =
                Append(@, [item |-> Comment(CommentTypeEndLine,
                                            TrimSpace(SliceFrom(line, index + Len(commentsLinePrefix)))),
                           from |-> index, to |-> Len(line)])])

\* One turn of the loop, for the rune ch at index and the rune after it.
stepRune(line, index, s, ch, nextRune) ==
    IF ch = prefixIngredient /\ nextRune # " "
    THEN stepNode(line, index, flushBuffer(s, index), getIngredient(SliceFrom(line, index)))
    ELSE IF ch = prefixCookware /\ nextRune # " "
    THEN stepNode(line, index, flushBuffer(s, index), getCookware(SliceFrom(line, index)))
    ELSE IF ch = prefixTimer /\ nextRune # " "
    THEN stepNode(line, index, flushBuffer(s, index), getTimer(SliceFrom(line, index)))
    ELSE IF ch = prefixBlockComment /\ nextRune = "-"
    THEN stepBlockComment(line, index, flushBuffer(s, index), getBlockComment(SliceFrom(line, index)))
    ELSE IF ch = prefixInlineComment /\ nextRune = prefixInlineComment
    THEN stepEndLineComment(line, index, flushBuffer(s, index))
    ELSE parseStepLoop(line, index + 1,
             [s EXCEPT !.buffer = Append(@, ch), !.directions = Append(@, ch)])

parseStepLoop(line, index, s) ==
    IF index >= Len(line) THEN stepEnd(flushBuffer(s, index))
    ELSE stepRune(line, index, s, line[index + 1], peek(SliceFrom(line, index + 1)))

parseStepCB(line) ==
    parseStepLoop(line, 0, [buffer |-> <<>>, directions |-> <<>>, calls |-> <<>>])

\* ------------------------------------------------------------------------
\* Steps: parseRecipeLine (V1) and ParserV2.parseRecipeLine
\* ------------------------------------------------------------------------
\* The items of the calls of cb whose item has dynamic type t.
ItemsOf(calls, t) ==
    [i \in 1..Len(SelectSeq(calls, LAMBDA c : c.item.T = t)) |->
        SelectSeq(calls, LAMBDA c : c.item.T = t)[i].item]

CommentValues(items) == [i \in 1..Len(items) |-> items[i].Value]

\* The Step the callback of parseRecipeLine builds.
stepV1(r) ==
    IF r.st # "ok" THEN [st |-> r.st, err |-> r.err, step |-> <<>>]
    ELSE [st |-> "ok", err |-> Nil,
          step |-> <<[Directions |-> r.directions,
                      Timers |-> ItemsOf(r.calls, "Timer"),
                      Ingredients |-> ItemsOf(r.calls, "Ingredient"),
                      Cookware |-> ItemsOf(r.calls, "Cookware"),
                      Comments |-> CommentValues(ItemsOf(r.calls, "Comment"))]>>]

parseRecipeLine(line) == stepV1(parseStepCB(line))

asCookwareV2(c) == [T |-> "CookwareV2", Type |-> ItemTypeCookware, Name |-> c.Name, Quantity |-> c.Quantity]

asIngredientV2(i) ==
    [T |-> "IngredientV2", Type |-> ItemTypeIngredient, Name |-> i.Name,
     Quantity |-> i.Amount.Quantity, Units |-> i.Amount.Unit]

asTimerV2(t) ==
    [T |-> "TimerV2", Type |-> ItemTypeTimer, Name |-> t.Name, Quantity |-> t.Duration, Unit |-> t.Unit]

asTextV2(t) == [T |-> "TextV2", Type |-> ItemTypeText, Value |-> t.Value]

\* The ItemType the callback of ParserV2.parseRecipeLine tests for an item.
itemTypeOf(item) ==
    CASE item.T = "Timer" -> ItemTypeTimer
      [] item.T = "Ingredient" -> ItemTypeIngredient
      [] item.T = "Cookware" -> ItemTypeCookware
      [] item.T = "Text" -> ItemTypeText
      [] item.T = "Comment" -> ItemTypeComment

\* What the callback appends to the step for an item that is not ignored.
asItemV2(item) ==
    CASE item.T = "Timer" -> asTimerV2(item)
      [] item.T = "Ingredient" -> asIngredientV2(item)
      [] item.T = "Cookware" -> asCookwareV2(item)
      [] item.T = "Text" -> asTextV2(item)
      [] item.T = "Comment" -> item

\* keptCalls that never drops a Text item.
keptCallsWithText(config, calls) ==
    SelectSeq(calls, LAMBDA c : itemTypeOf(c.item) \notin (config \ {ItemTypeText}))

\* The calls of cb whose item type is not in IgnoreTypes.
keptCalls(config, calls) == SelectSeq(calls, LAMBDA c : itemTypeOf(c.item) \notin config)

itemsV2(kept) == [i \in 1..Len(kept) |-> asItemV2(kept[i].item)]

\* The StepV2 the callback of ParserV2.parseRecipeLine builds.
stepV2(config, r) ==
    IF r.st # "ok" THEN [st |-> r.st, err |-> r.err, step |-> <<>>]
    ELSE [st |-> "ok", err |-> Nil, step |-> <<itemsV2(keptCalls(config, r.calls))>>]

parseRecipeLineV2(config, line) == stepV2(config, parseStepCB(line))

\* ------------------------------------------------------------------------
\* Comment lines, metadata lines and the front matter
\* ------------------------------------------------------------------------
\* parseSingleLineComment without strings.TrimSpace.
parseSingleLineCommentRaw(line) == SliceFrom(line, 2)

parseSingleLineComment(line) == TrimSpace(SliceFrom(line, 2))

\* metadataAt with the test index < 0: an empty key is accepted.
metadataAtEmptyKey(metadataLine, index) ==
    IF index < 0 THEN Err("invalid metadata")
    ELSE Ok([key |-> TrimSpace(Slice(metadataLine, 0, index)),
             value |-> TrimSpace(SliceFrom(metadataLine, index + 1))])

metadataAt(metadataLine, index) ==
    IF index < 1 THEN Err("invalid metadata")
    ELSE Ok([key |-> TrimSpace(Slice(metadataLine, 0, index)),
             value |-> TrimSpace(SliceFrom(metadataLine, index + 1))])

parseMetadata(line) ==
    metadataAt(TrimSpace(SliceFrom(line, 2)),
               Index(TrimSpace(SliceFrom(line, 2)), metadataValueSeparator))

\* make(map[string]any)
EmptyMap == [k \in {} |-> <<>>]

\* recipe.Metadata[key] = value
MapSet(m, key, value) == (key :> value) @@ m

\* The lines of the front-matter buffer (each was appended with a "\n").
RECURSIVE SplitLines(_)
SplitLines(s) ==
    IF Index(s, <<"\n">>) = -1 THEN (IF s = <<>> THEN <<>> ELSE <<s>>)
    ELSE <<Slice(s, 0, Index(s, <<"\n">>))>> \o SplitLines(SliceFrom(s, Index(s, <<"\n">>) + 1))

\* The characters of a plain YAML scalar of the model: letters and digits.
PlainChars == {"a", "b", "c", "j", "k", "v", "w"} \cup Digits

IsPlain(s) == s # <<>> /\ \A i \in 1..Len(s) : s[i] \in PlainChars

\* A line "key: value" of a block mapping, key and value plain scalars.
IsMappingLine(l) ==
    /\ Index(l, <<":", " ">>) >= 1
    /\ IsPlain(Slice(l, 0, Index(l, <<":", " ">>)))
    /\ IsPlain(SliceFrom(l, Index(l, <<":", " ">>) + 2))

MappingKey(l) == Slice(l, 0, Index(l, <<":", " ">>))

MappingValue(l) == SliceFrom(l, Index(l, <<":", " ">>) + 2)

RECURSIVE MergeMapping(_, _)
MergeMapping(ls, m) ==
    IF ls = <<>> THEN m
    ELSE MergeMapping(Tail(ls), MapSet(m, MappingKey(Head(ls)), MappingValue(Head(ls))))

decodeLines(ls, metadata) ==
    IF ls = <<>> THEN Err("EOF")
    ELSE IF \E i \in 1..Len(ls) : ~IsMappingLine(ls[i]) THEN Err("yaml: cannot decode")
    ELSE IF \E i, j \in 1..Len(ls) : i < j /\ MappingKey(ls[i]) = MappingKey(ls[j])
    THEN Err("yaml: mapping key already defined")
    ELSE Ok(MergeMapping(ls, metadata))

\* yaml.NewDecoder(y).Decode(recipe.Metadata) on the buffer: a block mapping
\* of "key: value" lines with distinct keys sets these keys in the map; an
\* empty buffer (io.EOF), a line that is no mapping entry, and a key
\* defined twice in the buffer are decoding errors.
yamlDecode(frontMatter, metadata) == decodeLines(SplitLines(frontMatter), metadata)

\* ------------------------------------------------------------------------
\* parseLine (V1) and ParserV2.parseLine
\* ------------------------------------------------------------------------
\* The result of a line: the error (st, err), the recipe and the parser.
lineResult(st, err, recipe, p) == [st |-> st, err |-> err, recipe |-> recipe, p |-> p]

\* recipe.Metadata[key] = value, or the error of parseMetadata.
lineMetadata(m, recipe, p) ==
    IF m.st # "ok" THEN lineResult(m.st, m.err, recipe, p)
    ELSE lineResult("ok", Nil, [recipe EXCEPT !.Metadata = MapSet(@, m.val.key, m.val.value)], p)

\* lineStep that puts the new step first.
lineStepFirst(s, recipe, p) ==
    IF s.st # "ok" THEN lineResult(s.st, s.err, recipe, p)
    ELSE lineResult("ok", Nil, [recipe EXCEPT !.Steps = <<s.step[1]>> \o @], p)

\* recipe.Steps = append(recipe.Steps, *step), or the error of parseRecipeLine.
lineStep(s, recipe, p) ==
    IF s.st # "ok" THEN lineResult(s.st, s.err, recipe, p)
    ELSE lineResult("ok", Nil, [recipe EXCEPT !.Steps = Append(@, s.step[1])], p)

parseLine(line, recipe, p) ==
    IF HasPrefix(line, commentsLinePrefix)
    THEN lineResult("ok", Nil,
             [recipe EXCEPT !.Steps = Append(@, [Directions |-> <<>>, Timers |-> <<>>,
                                                 Ingredients |-> <<>>, Cookware |-> <<>>,
                                                 Comments |-> <<parseSingleLineComment(line)>>])], p)
    ELSE IF HasPrefix(line, metadataLinePrefix) THEN lineMetadata(parseMetadata(line), recipe, p)
    ELSE lineStep(parseRecipeLine(line), recipe, p)

\* The closing delimiter: p.inFrontMatter = false, then the decoding.
lineFrontMatter(d, recipe, p) ==
    IF d.st # "ok" THEN lineResult("err", "decoding yaml front matter", recipe, p)
    ELSE lineResult("ok", Nil, [recipe EXCEPT !.Metadata = d.val], p)

\* parseTrimmedLineV2 that tests the comment prefix before p.inFrontMatter.
parseTrimmedLineV2CommentFirst(line, recipe, p) ==
    IF line = frontMatterDelimiter /\ ~p.inFrontMatter
    THEN lineResult("ok", Nil, recipe, [p EXCEPT !.inFrontMatter = TRUE])
    ELSE IF line = frontMatterDelimiter /\ p.inFrontMatter
    THEN lineFrontMatter(yamlDecode(p.frontMatter, recipe.Metadata), recipe,
                         [p EXCEPT !.inFrontMatter = FALSE])
    ELSE IF HasPrefix(line, commentsLinePrefix)
    THEN lineResult("ok", Nil,
             IF ItemTypeComment \notin p.config
             THEN [recipe EXCEPT !.Steps =
                      Append(@, <<Comment(CommentTypeLine, parseSingleLineComment(line))>>)]
             ELSE recipe, p)
    ELSE IF p.inFrontMatter
    THEN lineResult("ok", Nil, recipe, [p EXCEPT !.frontMatter = @ \o line \o <<"\n">>])
    ELSE IF HasPrefix(line, metadataLinePrefix) THEN lineMetadata(parseMetadata(line), recipe, p)
    ELSE lineStep(parseRecipeLineV2(p.config, line), recipe, p)

\* ParserV2.parseLine after line = strings.TrimRight(line, " ").
parseTrimmedLineV2(line, recipe, p) ==
    IF line = frontMatterDelimiter /\ ~p.inFrontMatter
    THEN lineResult("ok", Nil, recipe, [p EXCEPT !.inFrontMatter = TRUE])
    ELSE IF line = frontMatterDelimiter /\ p.inFrontMatter
    THEN lineFrontMatter(yamlDecode(p.frontMatter, recipe.Metadata), recipe,
                         [p EXCEPT !.inFrontMatter = FALSE])
    ELSE IF p.inFrontMatter
    THEN lineResult("ok", Nil, recipe, [p EXCEPT !.frontMatter = @ \o line \o <<"\n">>])
    ELSE IF HasPrefix(line, commentsLinePrefix)
    THEN lineResult("ok", Nil,
             IF ItemTypeComment \notin p.config
             THEN [recipe EXCEPT !.Steps =
                      Append(@, <<Comment(CommentTypeLine, parseSingleLineComment(line))>>)]
             ELSE recipe, p)
    ELSE IF HasPrefix(line, metadataLinePrefix) THEN lineMetadata(parseMetadata(line), recipe, p)
    ELSE lineStep(parseRecipeLineV2(p.config, line), recipe, p)

parseLineV2(line, recipe, p) == parseTrimmedLineV2(TrimRight(line, {" "}), recipe, p)

\* ------------------------------------------------------------------------
\* The state: one parser object, the parse call in progress and its result
\* ------------------------------------------------------------------------
VARIABLES
    pc,          \* "idle", "scan" (in the loop of ParseStream), "done", "panicked"
    api,         \* "v1" (ParseString, ParseStream) or "v2" (the ParserV2 methods)
    entry,       \* "ParseString" or "ParseStream"
    p,           \* the ParserV2: [config, inFrontMatter, frontMatter]
    input,       \* the lines scanner.Text() has returned in this call
    lineNumber,  \* ParseStream's counter
    recipe,      \* the Recipe / RecipeV2 under construction: [Steps, Metadata]
    ret,         \* what the call returned: [recipe, err, errLine]
    ncalls,      \* the parse calls made on p
    nread        \* the lines read by all calls

vars == <<pc, api, entry, p, input, lineNumber, recipe, ret, ncalls, nread>>

EmptyRecipe == [Steps |-> <<>>, Metadata |-> EmptyMap]

\* A returned *Recipe is <<>> (nil) or <<recipe>>; err is Nil or the message
\* of the error, errLine the number of its "line %d: " prefix (0: none).
NoRet == [recipe |-> <<>>, err |-> Nil, errLine |-> 0]

\* NewParserV2(config)
NewParserV2(config) == [config |-> config, inFrontMatter |-> FALSE, frontMatter |-> <<>>]

Init(Configs) ==
    /\ pc = "idle"
    /\ api = "v2"
    /\ entry = "ParseStream"
    /\ p \in {NewParserV2(c) : c \in Configs}
    /\ input = <<>>
    /\ lineNumber = 0
    /\ recipe = EmptyRecipe
    /\ ret = NoRet
    /\ ncalls = 0
    /\ nread = 0

\* ParseString(""): the call fails before any line is read.
ParseStringEmpty(a, maxCalls) ==
    /\ pc \in {"idle", "done"}
    /\ ncalls < maxCalls
    /\ pc' = "done"
    /\ api' = a
    /\ entry' = "ParseString"
    /\ input' = <<>>
    /\ lineNumber' = 0
    /\ recipe' = EmptyRecipe
    /\ ret' = [recipe |-> <<>>, err |-> "recipe string must not be empty", errLine |-> 0]
    /\ ncalls' = ncalls + 1
    /\ UNCHANGED <<p, nread>>

\* ParseString(s) with s # "", or ParseStream(reader): a new scanner, a new
\* recipe, lineNumber 0.  The fields of p are left as they are.
ParseStart(a, e, maxCalls) ==
    /\ pc \in {"idle", "done"}
    /\ ncalls < maxCalls
    /\ pc' = "scan"
    /\ api' = a
    /\ entry' = e
    /\ input' = <<>>
    /\ lineNumber' = 0
    /\ recipe' = EmptyRecipe
    /\ ret' = NoRet
    /\ ncalls' = ncalls + 1
    /\ UNCHANGED <<p, nread>>

\* The result of one turn of the loop of ParseStream, lineNumber included.
numbered(res, n) ==
    [st |-> res.st, err |-> IF res.st = "err" THEN res.err ELSE Nil,
     recipe |-> res.recipe, p |-> res.p, lineNumber |-> n]

\* scanStep that counts only the lines it parses.
scanStepSkipBlank(a, line, n, r, q) ==
    numbered(IF TrimSpace(line) # <<>>
             THEN (IF a = "v1" THEN parseLine(line, r, q) ELSE parseLineV2(line, r, q))
             ELSE lineResult("ok", Nil, r, q),
             IF TrimSpace(line) # <<>> THEN n + 1 ELSE n)

\* The body of the loop of ParseStream for one line of the input.
scanStep(a, line, n, r, q) ==
    numbered(IF TrimSpace(line) # <<>>
             THEN (IF a = "v1" THEN parseLine(line, r, q) ELSE parseLineV2(line, r, q))
             ELSE lineResult("ok", Nil, r, q),
             n + 1)

\* The assignments of one turn of the loop; an error is returned with its
\* line number and no recipe.
ScanResult(s) ==
    /\ lineNumber' = s.lineNumber
    /\ p' = s.p
    /\ pc' = (CASE s.st = "ok" -> "scan" [] s.st = "err" -> "done" [] s.st = "panic" -> "panicked")
    /\ recipe' = s.recipe
    /\ ret' = IF s.st = "err"
              THEN [recipe |-> <<>>, err |-> s.err, errLine |-> s.lineNumber]
              ELSE ret

\* scanner.Scan() returns a line, one of lines: one turn of the loop.
ScanLine(lines, maxLines) ==
    /\ pc = "scan"
    /\ nread < maxLines
    /\ \E line \in lines :
          /\ ScanResult(scanStep(api, line, lineNumber, recipe, p))
          /\ input' = Append(input, line)
    /\ nread' = nread + 1
    /\ UNCHANGED <<api, entry, ncalls>>

\* ScanEOF that returns an error when the front matter is not closed.
ScanEOFClosedOnly ==
    /\ pc = "scan"
    /\ entry = "ParseString" => Len(input) >= 1
    /\ pc' = "done"
    /\ ret' = IF p.inFrontMatter
              THEN [recipe |-> <<>>, err |-> "decoding yaml front matter", errLine |-> lineNumber]
              ELSE [recipe |-> <<recipe>>, err |-> Nil, errLine |-> 0]
    /\ UNCHANGED <<api, entry, p, input, lineNumber, recipe, ncalls, nread>>

\* scanner.Scan() returns false: the recipe is returned.  A non-empty string
\* holds at least one line.
ScanEOF ==
    /\ pc = "scan"
    /\ entry = "ParseString" => Len(input) >= 1
    /\ pc' = "done"
    /\ ret' = [recipe |-> <<recipe>>, err |-> Nil, errLine |-> 0]
    /\ UNCHANGED <<api, entry, p, input, lineNumber, recipe, ncalls, nread>>

\* ------------------------------------------------------------------------
\* Inputs and specifications
\* ------------------------------------------------------------------------
\* All strings of at most n characters of S.
Strings(S, n) == UNION {[1..k -> S] : k \in 0..n}

Apis == {"v1", "v2"}

Entries == {"ParseString", "ParseStream"}

\* Spec: documents of a few lines of each kind, parsed by several calls on
\* one parser.
DocLines ==
    { <<"-", "-", "-">>,
      <<"k", ":", " ", "v">>,
      <<">", ">", " ", "k", ":", " ", "w">>,
      <<">", ">", " ", "k">>,
      <<" ">>,
      <<"-", "-", " ", "c">>,
      <<"a", "[", "-">> }

Next ==
    \/ \E a \in Apis : ParseStringEmpty(a, MaxCalls)
    \/ \E a \in Apis, e \in Entries : ParseStart(a, e, MaxCalls)
    \/ ScanLine(DocLines, MaxLines)
    \/ ScanEOF

Spec == Init({{}}) /\ [][Next]_vars

\* SpecLine: one call on one line, every line of at most MaxLineLen
\* characters of LineChars.
LineChars == {"@", "#", "~", "{", "}", "%", " ", "a", "1", ",", "-", "[", "]"}

Lines == Strings(LineChars, MaxLineLen)

NextLine ==
    \/ \E a \in Apis : ParseStart(a, "ParseString", 1)
    \/ ScanLine(Lines, 1)
    \/ ScanEOF

SpecLine == Init({{}}) /\ [][NextLine]_vars

\* SpecMeta: one call on one metadata line, ">>" followed by at most
\* MaxMetaLen characters of MetaChars.
MetaChars == {" ", ":", "k", "v"}

MetaLines == {metadataLinePrefix \o s : s \in Strings(MetaChars, MaxMetaLen)}

NextMeta ==
    \/ \E a \in Apis : ParseStart(a, "ParseString", 1)
    \/ ScanLine(MetaLines, 1)
    \/ ScanEOF

SpecMeta == Init({{}}) /\ [][NextMeta]_vars

\* SpecFM: one call of ParserV2.ParseStream on a document of at most
\* MaxFMLines lines: front-matter delimiters, "k: v" and ">> k: w".
FMLines ==
    { <<"-", "-", "-">>,
      <<"k", ":", " ", "v">>,
      <<">", ">", " ", "k", ":", " ", "w">> }

NextFM ==
    \/ ParseStart("v2", "ParseStream", 1)
    \/ ScanLine(FMLines, MaxFMLines)
    \/ ScanEOF

SpecFM == Init({{}}) /\ [][NextFM]_vars

\* SpecAmount: one call on one line that is one entity: "@a", "#a", "~a" or
\* "~", alone or followed by a brace body of at most MaxBodyLen characters
\* of AmountChars.
AmountChars == {"0", "1", "2", "/", " ", "%", "a"}

Heads == { <<"@", "a">>, <<"#", "a">>, <<"~", "a">>, <<"~">> }

AmountLines ==
    Heads \cup {h \o <<"{">> \o b \o <<"}">> : h \in Heads, b \in Strings(AmountChars, MaxBodyLen)}

NextAmount ==
    \/ \E a \in Apis : ParseStart(a, "ParseString", 1)
    \/ ScanLine(AmountLines, 1)
    \/ ScanEOF

SpecAmount == Init({{}}) /\ [][NextAmount]_vars

\* SpecComment: one call on one line comment, "--" followed by at most
\* MaxCommentLen characters of CommentChars, with IgnoreTypes empty or
\* holding ItemTypeComment.
CommentChars == {" ", "-", "c", "@"}

CommentLines == {commentsLinePrefix \o s : s \in Strings(CommentChars, MaxCommentLen)}

NextComment ==
    \/ \E a \in Apis : ParseStart(a, "ParseString", 1)
    \/ ScanLine(CommentLines, 1)
    \/ ScanEOF

SpecComment == Init({{}, {ItemTypeComment}}) /\ [][NextComment]_vars

\* SpecBuffer: one call of ParserV2.ParseStream on a document of at most
\* MaxBufferLines lines: delimiters, a mapping line, a comment line, a
\* metadata line without separator, entities, an open block comment and a
\* blank line, some with trailing spaces.
BufferLines ==
    { <<"-", "-", "-">>,
      <<"-", "-", "-", " ">>,
      <<"k", ":", " ", "v">>,
      <<"k", ":", " ", "v", " ">>,
      <<"-", "-", " ", "c">>,
      <<">", ">", " ", "k">>,
      <<"@", "a", "{">>,
      <<"#", "a">>,
      <<"~", "a", "%">>,
      <<"[", "-">>,
      <<" ">> }

NextBuffer ==
    \/ ParseStart("v2", "ParseStream", 1)
    \/ ScanLine(BufferLines, MaxBufferLines)
    \/ ScanEOF

SpecBuffer == Init({{}}) /\ [][NextBuffer]_vars

\* SpecIgnore: one call of ParserV2.ParseString on one line, for every set
\* of ignored item types; a line is made of at most MaxTokens pieces of
\* IgnoreTokens (single characters, a block comment, a brace body).
ItemTypes == {ItemTypeText, ItemTypeComment, ItemTypeCookware, ItemTypeIngredient, ItemTypeTimer}

IgnoreTokens ==
    { <<"@">>, <<"#">>, <<"~">>, <<"a">>, <<" ">>, <<"-">>,
      <<"[", "-", "a", "-", "]">>, <<"{", "1", "%", "a", "}">> }

RECURSIVE TokenLines(_)
TokenLines(n) ==
    IF n = 0 THEN {<<>>}
    ELSE TokenLines(n - 1) \cup {l \o t : l \in TokenLines(n - 1), t \in IgnoreTokens}

IgnoreLines == TokenLines(MaxTokens)

NextIgnore ==
    \/ ParseStart("v2", "ParseString", 1)
    \/ ScanLine(IgnoreLines, 1)
    \/ ScanEOF

SpecIgnore == Init(SUBSET ItemTypes) /\ [][NextIgnore]_vars

\* SpecPieces: one call, of either API, on one line of at most MaxPieces
\* pieces of IgnoreTokens.
PieceLines == TokenLines(MaxPieces)

NextPieces ==
    \/ \E a \in Apis : ParseStart(a, "ParseString", 1)
    \/ ScanLine(PieceLines, 1)
    \/ ScanEOF

SpecPieces == Init({{}}) /\ [][NextPieces]_vars

\* ------------------------------------------------------------------------
\* Vocabulary of the properties
\* ------------------------------------------------------------------------
\* A direction line: not blank, no line comment, no metadata line.
IsDirectionLine(line) ==
    /\ TrimSpace(line) # <<>>
    /\ ~HasPrefix(line, commentsLinePrefix)
    /\ ~HasPrefix(line, metadataLinePrefix)

\* The call has read exactly one line, a direction line.
OneDirectionLine == Len(input) = 1 /\ IsDirectionLine(input[1])

\* The names of the Ingredient and Cookware items of the recipe being built.
EmittedNames ==
    IF api = "v1"
    THEN UNION {{recipe.Steps[i].Ingredients[j].Name : j \in 1..Len(recipe.Steps[i].Ingredients)}
                \cup {recipe.Steps[i].Cookware[j].Name : j \in 1..Len(recipe.Steps[i].Cookware)}
                : i \in 1..Len(recipe.Steps)}
    ELSE UNION {{recipe.Steps[i][j].Name :
                    j \in {k \in 1..Len(recipe.Steps[i]) :
                              recipe.Steps[i][k].T \in {"IngredientV2", "CookwareV2"}}}
                : i \in 1..Len(recipe.Steps)}

\* The line the tokenizer is handed: ParserV2.parseLine trims its trailing
\* spaces first.
TokLine == IF api = "v1" THEN input[1] ELSE TrimRight(input[1], {" "})

\* The calls of cb (items with their spans) for the line read.
TokCalls == parseStepCB(TokLine).calls

\* The call read one direction line and built its Step without an error.
StepBuilt == OneDirectionLine /\ pc \in {"scan", "done"} /\ ret.err = Nil

\* The dynamic types of the entity items of a StepV2, and their markers.
EntityItems == {"IngredientV2", "CookwareV2", "TimerV2"}

MarkerOf == ("IngredientV2" :> prefixIngredient) @@ ("CookwareV2" :> prefixCookware)
            @@ ("TimerV2" :> prefixTimer)

\* The markers of the line are each followed by a space.
MarkersBeforeSpaces(line) ==
    \A i \in 1..Len(line) :
        line[i] \in {prefixIngredient, prefixCookware, prefixTimer}
            => (i < Len(line) /\ line[i + 1] = " ")

\* The characters that end a single word: white space and punctuation.
WordEnds == SpaceChars \cup {","}

\* The word of line that starts at the 0-based position from.
Word(line, from) ==
    LET ends == {i \in from..(Len(line) - 1) : line[i + 1] \in WordEnds}
    IN Slice(line, from, IF ends = {} THEN Len(line)
                         ELSE CHOOSE i \in ends : \A j \in ends : i <= j)

\* The error a line can stop the parse with.
FatalOf(line) ==
    IF HasPrefix(line, metadataLinePrefix) THEN "invalid metadata"
    ELSE IF TrimRight(line, {" "}) = frontMatterDelimiter THEN "decoding yaml front matter"
    ELSE "invalid block comment"

\* What a parser made by NewParserV2(config) returns for the lines: the
\* loop of ParserV2.ParseStream from line number n, recipe r and parser q.
RECURSIVE RunFresh(_, _, _, _)
RunFresh(lines, n, r, q) ==
    IF lines = <<>> THEN [recipe |-> <<r>>, err |-> Nil, errLine |-> 0]
    ELSE LET s == scanStep("v2", Head(lines), n, r, q)
         IN IF s.st = "ok" THEN RunFresh(Tail(lines), s.lineNumber, s.recipe, s.p)
            ELSE [recipe |-> <<>>, err |-> s.err, errLine |-> s.lineNumber]

\* Line i of the input is a front-matter delimiter.
IsDelimiter(i) == TrimRight(input[i], {" "}) = frontMatterDelimiter

\* Line i of the input lies in a front-matter block that is closed.
InBlock(i) ==
    /\ ~IsDelimiter(i)
    /\ Cardinality({j \in 1..(i - 1) : IsDelimiter(j)}) % 2 = 1
    /\ \E j \in (i + 1)..Len(input) : IsDelimiter(j)

\* Line i of the input is a metadata line outside the front matter.
IsMetadataLine(i) ==
    /\ ~IsDelimiter(i)
    /\ Cardinality({j \in 1..(i - 1) : IsDelimiter(j)}) % 2 = 0
    /\ HasPrefix(input[i], metadataLinePrefix)
    /\ parseMetadata(input[i]).st = "ok"

\* Line i of the input defines key k, and the value it gives it.
Defines(i, k) ==
    \/ InBlock(i) /\ IsMappingLine(input[i]) /\ MappingKey(input[i]) = k
    \/ IsMetadataLine(i) /\ parseMetadata(input[i]).val.key = k

DefinedValue(i) ==
    IF InBlock(i) THEN MappingValue(input[i]) ELSE parseMetadata(input[i]).val.value

\* A line that gives one Step when ParserV2 reads it in state inFrontMatter.
IsStepLine(line, inFrontMatter) ==
    /\ TrimSpace(line) # <<>>
    /\ ~inFrontMatter
    /\ TrimRight(line, {" "}) # frontMatterDelimiter
    /\ ~HasPrefix(line, metadataLinePrefix)

\* The text of a metadata line after its prefix, and its colons.
MetaRest(line) == TrimSpace(SubSeq(line, 3, Len(line)))

Colons(rest) == {i \in 1..Len(rest) : rest[i] = ":"}

FirstColon(rest) == CHOOSE i \in Colons(rest) : \A j \in Colons(rest) : i <= j

\* The positions of character c in s, and the first of them (0: none).
Positions(s, c) == {i \in 1..Len(s) : s[i] = c}

FirstPos(s, c) ==
    IF Positions(s, c) = {} THEN 0
    ELSE CHOOSE i \in Positions(s, c) : \A j \in Positions(s, c) : i <= j

\* The line read is one entity with a brace body; its name and its body.
Braced == Len(input) = 1 /\ FirstPos(input[1], "{") > 0 /\ input[1][Len(input[1])] = "}"

NameOf(line) ==
    IF FirstPos(line, "{") = 0 THEN SubSeq(line, 2, Len(line))
    ELSE SubSeq(line, 2, FirstPos(line, "{") - 1)

BodyOf(line) == SubSeq(line, FirstPos(line, "{") + 1, Len(line) - 1)

\* ParseString (V1) built the Step of the one line read, an entity of the
\* kind of marker.
BuiltV1(marker) == api = "v1" /\ StepBuilt /\ input[1][1] = marker

TheIngredient == recipe.Steps[1].Ingredients[1]

TheCookware == recipe.Steps[1].Cookware[1]

TheTimer == recipe.Steps[1].Timers[1]

\* The quantity text of a brace body (the part before its first "%", all
\* of it when there is none), trimmed, and the unit after the "%", trimmed.
QuantityText(body) ==
    TrimSpace(IF FirstPos(body, "%") = 0 THEN body
              ELSE SubSeq(body, 1, FirstPos(body, "%") - 1))

UnitText(body) ==
    IF FirstPos(body, "%") = 0 THEN <<>>
    ELSE TrimSpace(SubSeq(body, FirstPos(body, "%") + 1, Len(body)))

\* A non-empty text of decimal digits; one without a leading zero.
IsNat(s) == s # <<>> /\ \A i \in 1..Len(s) : s[i] \in Digits

NoLeadingZero(s) == Len(s) = 1 \/ s[1] # "0"

\* The operands of a text with a "/", trimmed.
Numerator(t) == TrimSpace(SubSeq(t, 1, FirstPos(t, "/") - 1))

Denominator(t) == TrimSpace(SubSeq(t, FirstPos(t, "/") + 1, Len(t)))

\* The text has the form a/b, a and b texts of decimal digits.
IsFractionLike(t) == FirstPos(t, "/") > 0 /\ IsNat(Numerator(t)) /\ IsNat(Denominator(t))

\* The float64 q is the quotient of the integers a and b.
IsQuotient(q, a, b) == q[1] * b = a * q[2] /\ (q[2] = 0 <=> b = 0)

\* The text is a number (of the characters of AmountChars).
IsNumber(t) == IsNat(t) \/ IsFractionLike(t)

\* The 1-based positions of the "-]" of line after the opener "[-".
Closers(line) == {i \in 3..(Len(line) - 1) : line[i] = "-" /\ line[i + 1] = "]"}

\* The 0-based position i of line lies in the span of an entity or of a
\* block comment among calls.
Consumed(calls, i) ==
    \E k \in 1..Len(calls) :
        /\ calls[k].from <= i /\ i < calls[k].to
        /\ \/ calls[k].item.T \in {"Ingredient", "Cookware", "Timer"}
           \/ calls[k].item.T = "Comment" /\ calls[k].item.Type = CommentTypeBlock

\* The 0-based positions of the "--" of line outside these spans.
Dashes(line, calls) ==
    {i \in 0..(Len(line) - 2) :
        line[i + 1] = "-" /\ line[i + 2] = "-" /\ ~Consumed(calls, i)}

IsEndLineComment(item) == item.T = "Comment" /\ item.Type = CommentTypeEndLine

\* The Steps a line comment gives: for ParseString a Step with the comment
\* alone, for ParserV2 a Step with one Comment, or none when the
\* configuration ignores comments.
LineCommentSteps(line) ==
    IF api = "v1"
    THEN <<[Directions |-> <<>>, Timers |-> <<>>, Ingredients |-> <<>>, Cookware |-> <<>>,
            Comments |-> <<TrimSpace(SubSeq(line, 3, Len(line)))>>]>>
    ELSE IF ItemTypeComment \in p.config THEN <<>>
    ELSE << <<Comment(CommentTypeLine, TrimSpace(SubSeq(line, 3, Len(line))))>> >>

\* The kind of an item of a StepV2.
KindOf(item) ==
    CASE item.T = "TextV2" -> ItemTypeText
      [] item.T = "IngredientV2" -> ItemTypeIngredient
      [] item.T = "CookwareV2" -> ItemTypeCookware
      [] item.T = "TimerV2" -> ItemTypeTimer
      [] item.T = "Comment" -> ItemTypeComment

\* The items of a StepV2 whose kind is not in S, in their order.
WithoutKinds(step, S) == SelectSeq(step, LAMBDA item : KindOf(item) \notin S)

\* The characters that can open a construct: the entity markers and the
\* first characters of "--", "[-", ">>" and "---".
MarkerChars == {prefixIngredient, prefixCookware, prefixTimer, prefixBlockComment,
                prefixInlineComment, ">"}

NoMarkers(line) == \A i \in 1..Len(line) : line[i] \notin MarkerChars

\* What replaces the span of call k of a line in the Directions of its
\* Step: a text stays, an ingredient or cookware gives its name, a timer
\* its duration, a space and its unit, a comment nothing.  The entities are
\* taken from the lists of the Step, the n-th call of a kind from place n.
Replacement(line, calls, step, k) ==
    LET kind == calls[k].item.T
        n == Cardinality({j \in 1..k : calls[j].item.T = kind})
    IN CASE kind = "Text" -> Slice(line, calls[k].from, calls[k].to)
         [] kind = "Ingredient" -> step.Ingredients[n].Name
         [] kind = "Cookware" -> step.Cookware[n].Name
         [] kind = "Timer" -> FormatFloat(step.Timers[n].Duration) \o <<" ">> \o step.Timers[n].Unit
         [] kind = "Comment" -> <<>>

RECURSIVE Replaced(_, _, _, _)
Replaced(line, calls, step, k) ==
    IF k = 0 THEN <<>>
    ELSE Replaced(line, calls, step, k - 1) \o Replacement(line, calls, step, k)

\* The number of calls of a kind.
CountOf(calls, kind) == Cardinality({j \in 1..Len(calls) : calls[j].item.T = kind})

\* The last front-matter delimiter of the input (0: none), and the text of
\* the lines i..j of the input as the front-matter buffer holds them: the
\* lines that are not blank, without their trailing spaces, each followed
\* by a newline.
LastDelimiter ==
    IF \A i \in 1..Len(input) : ~IsDelimiter(i) THEN 0
    ELSE CHOOSE i \in 1..Len(input) :
             IsDelimiter(i) /\ \A j \in (i + 1)..Len(input) : ~IsDelimiter(j)

RECURSIVE BlockText(_, _)
BlockText(i, j) ==
    IF i > j THEN <<>>
    ELSE IF TrimSpace(input[i]) = <<>> THEN BlockText(i + 1, j)
    ELSE TrimRight(input[i], {" "}) \o <<"\n">> \o BlockText(i + 1, j)

\* The smallest element of a non-empty set of numbers.
Least(S) == CHOOSE i \in S : \A j \in S : i <= j

\* The 1-based position p of line, after its first character, starts an
\* entity: a marker that is not followed by a space.
StartsEntity(line, i) ==
    /\ i >= 2
    /\ line[i] \in {prefixIngredient, prefixCookware, prefixTimer}
    /\ (i = Len(line) \/ line[i + 1] # " ")

\* The end of the span the claim C27 describes for a line that begins at a
\* marker: just after the first "}" when it comes before every other
\* marker character, else the first space of the line or its end.
SpanEnd(line) ==
    LET closers == {i \in 2..Len(line) : line[i] = "}"}
        others == {i \in 2..Len(line) :
                      line[i] \in {prefixIngredient, prefixCookware, prefixTimer,
                                   prefixBlockComment}}
        spaces == {i \in 1..Len(line) : line[i] = " "}
    IN IF closers # {} /\ (others = {} \/ Least(closers) < Least(others))
       THEN Least(closers)
       ELSE IF spaces # {} THEN Least(spaces) - 1
       ELSE Len(line)

\* ------------------------------------------------------------------------
\* Properties
\* ------------------------------------------------------------------------
\* C1: a direction line without the block-comment opener "[-" never makes
\* ParseString or ParserV2.ParseString hard-fail, whatever malformed "@",
\* "#" or "~" constructs it holds: no error is returned and no run-time
\* panic occurs.
C1_NeverHardFails ==
    (OneDirectionLine /\ Index(input[1], <<"[", "-">>) = -1)
        => (pc # "panicked" /\ ret.err = Nil)

\* C10: every Ingredient and every Cookware item a parse emits has a
\* non-empty Name.
C10_NamesNonEmpty == \A name \in EmittedNames : name # <<>>

C8_MarkerBeforeSpaceIsText ==
    (StepBuilt /\ MarkersBeforeSpaces(input[1])
               /\ Index(input[1], commentsLinePrefix) = -1
               /\ Index(input[1], <<"[", "-">>) = -1) =>
        IF api = "v2"
        THEN recipe.Steps[1] = <<asTextV2(newText(TokLine))>>
        ELSE /\ recipe.Steps[1].Ingredients = <<>>
             /\ recipe.Steps[1].Cookware = <<>>
             /\ recipe.Steps[1].Timers = <<>>

\* C9: in single-word form (a line without braces) the name of an entity is
\* the word after its marker, which ends at the first white space or
\* punctuation character.
C9_SingleWordName ==
    (api = "v2" /\ StepBuilt /\ Index(input[1], <<"{">>) = -1
                /\ Index(input[1], <<"}">>) = -1) =>
        \A i \in 1..Len(recipe.Steps[1]) :
            recipe.Steps[1][i].T \in EntityItems =>
                recipe.Steps[1][i].Name = Word(TokLine, TokCalls[i].from + 1)

\* The state part of C3.
C3_NoDocument ==
    pc = "done" =>
        /\ ret.err # Nil <=> ret.recipe = <<>>
        /\ (entry = "ParseString" /\ input = <<>>) =>
              (ret.err = "recipe string must not be empty" /\ ret.errLine = 0)
        /\ (ret.err # Nil /\ input # <<>>) =>
              (ret.errLine = Len(input) /\ ret.err = FatalOf(input[Len(input)]))

C4_CallsIndependent ==
    (pc = "done" /\ api = "v2" /\ input # <<>>) =>
        ret = RunFresh(input, 0, EmptyRecipe, NewParserV2(p.config))

\* C5: after a successful parse by ParserV2 every key of Metadata has the
\* value of the last line of the input, metadata line or line of a
\* front-matter block, that defines it.
C5_LastWriteWins ==
    (pc = "done" /\ api = "v2" /\ ret.err = Nil) =>
        \A k \in DOMAIN recipe.Metadata :
            \E i \in 1..Len(input) :
                /\ Defines(i, k)
                /\ \A j \in (i + 1)..Len(input) : ~Defines(j, k)
                /\ recipe.Metadata[k] = DefinedValue(i)

\* C6: for a line that starts with ">>", with rest the trimmed text after
\* the prefix: if rest has no ":" or nothing before its first ":", the parse
\* fails with an error; otherwise the key is the trimmed text before the
\* first ":", not empty, and the value the trimmed text after it.
C6_ParseMetadata ==
    (Len(input) = 1 /\ HasPrefix(input[1], metadataLinePrefix)) =>
        LET rest == MetaRest(input[1])
        IN IF Colons(rest) = {} \/ FirstColon(rest) = 1
           THEN /\ pc = "done"
                /\ ret = [recipe |-> <<>>, err |-> "invalid metadata", errLine |-> 1]
           ELSE /\ pc \in {"scan", "done"}
                /\ ret.err = Nil
                /\ recipe.Steps = <<>>
                /\ TrimSpace(SubSeq(rest, 1, FirstColon(rest) - 1)) # <<>>
                /\ recipe.Metadata =
                      (TrimSpace(SubSeq(rest, 1, FirstColon(rest) - 1))
                         :> TrimSpace(SubSeq(rest, FirstColon(rest) + 1, Len(rest))))

\* A key with a space in it and a value with a ":" in it.
C6_Witness ==
    /\ pc = "done"
    /\ Len(input) = 1
    /\ ret.err = Nil
    /\ recipe.Metadata = (<<"k", " ", "k">> :> <<":">>)

\* C7: with no ignored item type, a line ParserV2 reads without an error
\* appends one Step, after those of the earlier lines, if it is not blank,
\* is read in state Normal and is no front-matter delimiter and no metadata
\* line (the Comment of a line comment, the items of a direction line);
\* any other line leaves the Steps as they are.
C7_OneStepPerLine ==
    [][(api = "v2" /\ pc = "scan" /\ pc' = "scan") =>
          LET line == input'[Len(input')]
          IN IF IsStepLine(line, p.inFrontMatter)
             THEN /\ Len(recipe'.Steps) = Len(recipe.Steps) + 1
                  /\ SubSeq(recipe'.Steps, 1, Len(recipe.Steps)) = recipe.Steps
                  /\ HasPrefix(line, commentsLinePrefix) =>
                        recipe'.Steps[Len(recipe'.Steps)]
                          = <<Comment(CommentTypeLine, TrimSpace(SubSeq(line, 3, Len(line))))>>
                  /\ ~HasPrefix(line, commentsLinePrefix) =>
                        recipe'.Steps[Len(recipe'.Steps)]
                          = parseRecipeLineV2({}, TrimRight(line, {" "})).step[1]
             ELSE recipe'.Steps = recipe.Steps]_vars

\* A line comment, a blank line and a direction line: two Steps.
C7_Witness ==
    /\ api = "v2" /\ pc = "done" /\ ret.err = Nil
    /\ input = << <<"-", "-", " ", "c">>, <<" ">>, <<"k", ":", " ", "v">> >>
    /\ Len(recipe.Steps) = 2
    /\ recipe.Steps[1] = <<Comment(CommentTypeLine, <<"c">>)>>
    /\ recipe.Steps[2] = <<asTextV2(newText(<<"k", ":", " ", "v">>))>>

\* C11: an ingredient written without an amount ("@a" or "@a{}") has the
\* default Amount: not numeric, the raw quantity "some", an empty unit.
C11_DefaultAmountSome ==
    (BuiltV1(prefixIngredient) /\ (Braced => BodyOf(input[1]) = <<>>)) =>
        /\ Len(recipe.Steps[1].Ingredients) = 1
        /\ ~TheIngredient.Amount.IsNumeric
        /\ TheIngredient.Amount.QuantityRaw = <<"s", "o", "m", "e">>
        /\ TheIngredient.Amount.Unit = <<>>

\* C12: an entity with an empty brace body ("@a{}", "#a{}", "~a{}") resolves
\* to the same name and amount as the entity without braces: the Step of
\* the line is the Step of the line without its "{}".
C12_EmptyBodyAsNoBraces ==
    (StepBuilt /\ Braced /\ BodyOf(input[1]) = <<>>) =>
        LET short == SubSeq(input[1], 1, FirstPos(input[1], "{") - 1)
        IN recipe.Steps[1] = IF api = "v1" THEN parseRecipeLine(short).step[1]
                             ELSE parseRecipeLineV2({}, short).step[1]

\* C13: a quantity text a/b, a and b non-negative integers without a
\* leading zero (spaces around them trimmed), resolves to the numeric
\* amount a divided by b, for an ingredient and for a timer.
C13_Fractions ==
    (api = "v1" /\ StepBuilt /\ Braced
        /\ IsFractionLike(QuantityText(BodyOf(input[1])))
        /\ NoLeadingZero(Numerator(QuantityText(BodyOf(input[1]))))
        /\ NoLeadingZero(Denominator(QuantityText(BodyOf(input[1]))))) =>
        LET t == QuantityText(BodyOf(input[1]))
            a == DigitsVal(Numerator(t))
            b == DigitsVal(Denominator(t))
        IN /\ input[1][1] = prefixIngredient =>
                (TheIngredient.Amount.IsNumeric /\ IsQuotient(TheIngredient.Amount.Quantity, a, b))
           /\ input[1][1] = prefixTimer => IsQuotient(TheTimer.Duration, a, b)

\* C14: a fraction-like quantity with an operand of several digits and a
\* leading zero is never a number: the Amount is not numeric and its raw
\* quantity is the text, slash included.
C14_LeadingZeroStaysText ==
    (BuiltV1(prefixIngredient) /\ Braced
        /\ IsFractionLike(QuantityText(BodyOf(input[1])))
        /\ ~(NoLeadingZero(Numerator(QuantityText(BodyOf(input[1]))))
              /\ NoLeadingZero(Denominator(QuantityText(BodyOf(input[1])))))) =>
        /\ ~TheIngredient.Amount.IsNumeric
        /\ TheIngredient.Amount.QuantityRaw = QuantityText(BodyOf(input[1]))

\* C15: getAmount splits a non-empty brace body at its first "%": the unit
\* is the trimmed part after it, QuantityRaw the trimmed quantity text
\* before it (all of the body when there is no "%"); the Amount is numeric
\* iff the quantity text is a number, and the Quantity of a text that is
\* no number is the default of the kind, 0 for an ingredient and 1 for
\* cookware.
C15_GetAmount ==
    (api = "v1" /\ StepBuilt /\ Braced /\ BodyOf(input[1]) # <<>>) =>
        LET t == QuantityText(BodyOf(input[1]))
        IN /\ input[1][1] = prefixIngredient =>
                /\ TheIngredient.Amount.Unit = UnitText(BodyOf(input[1]))
                /\ TheIngredient.Amount.QuantityRaw = t
                /\ TheIngredient.Amount.IsNumeric = IsNumber(t)
                /\ ~IsNumber(t) => TheIngredient.Amount.Quantity = Float(0)
                /\ IsNat(t) => TheIngredient.Amount.Quantity = Float(DigitsVal(t))
           /\ input[1][1] = prefixCookware =>
                /\ TheCookware.QuantityRaw = t
                /\ TheCookware.IsNumeric = IsNumber(t)
                /\ ~IsNumber(t) => TheCookware.Quantity = Float(1)
                /\ IsNat(t) => TheCookware.Quantity = Float(DigitsVal(t))

\* Cookware with a quantity of two words: quantity 1, the raw text kept.
C15_Witness ==
    /\ api = "v1" /\ pc = "done" /\ ret.err = Nil
    /\ input = << <<"#", "a", "{", "a", " ", "a", "}">> >>
    /\ TheCookware = [T |-> "Cookware", IsNumeric |-> FALSE, Name |-> <<"a">>,
                      Quantity |-> Float(1), QuantityRaw |-> <<"a", " ", "a">>]

\* C16: a braced timer has the text before "{" as its Name, and the
\* quantity and unit that an ingredient with the same body has.
C16_BracedTimer ==
    (BuiltV1(prefixTimer) /\ Braced) =>
        /\ TheTimer.Name = NameOf(input[1])
        /\ TheTimer.Duration = getAmount(BodyOf(input[1]), Float(0)).Quantity
        /\ TheTimer.Unit = getAmount(BodyOf(input[1]), Float(0)).Unit

\* C17: a single-word timer "~word" has the word as its Name, no duration
\* and an empty unit, whatever characters (here letters, digits and "%")
\* the word holds.
C17_SingleWordTimer ==
    (BuiltV1(prefixTimer) /\ Len(input[1]) >= 2
        /\ \A i \in 2..Len(input[1]) : input[1][i] \in {"a", "1", "%"}) =>
        recipe.Steps[1].Timers =
            <<[T |-> "Timer", Name |-> SubSeq(input[1], 2, Len(input[1])),
               Duration |-> Float(0), Unit |-> <<>>]>>

\* C18: getBlockComment is total on a text that starts with "[-": with a
\* "-]" after the opener the Comment is the trimmed text up to the first
\* one and the scan resumes right after it; without one the parse returns
\* the error of the line, and never panics.
C18_BlockCommentTotal ==
    (Len(input) = 1 /\ HasPrefix(input[1], <<"[", "-">>)) =>
        IF Closers(TokLine) = {}
        THEN /\ pc = "done"
             /\ ret = [recipe |-> <<>>, err |-> "invalid block comment", errLine |-> 1]
        ELSE /\ pc # "panicked"
             /\ StepBuilt =>
                   LET c == CHOOSE i \in Closers(TokLine) : \A j \in Closers(TokLine) : i <= j
                   IN /\ TokCalls[1].item
                           = Comment(CommentTypeBlock, TrimSpace(SubSeq(TokLine, 3, c - 1)))
                      /\ TokCalls[1].to = c + 1

\* C19: the first "--" of a direction line outside the span of an entity
\* or block comment ends the scan: the item of the rest of the line is the
\* last one, an end-line Comment of the trimmed text after the "--", and
\* every other item lies before it; a line without such a "--" has no
\* end-line Comment.
C19_EndLineComment ==
    StepBuilt =>
        LET line == TokLine
            calls == TokCalls
            d == Dashes(line, calls)
            n == Len(calls)
        IN IF d = {}
           THEN \A k \in 1..n : ~IsEndLineComment(calls[k].item)
           ELSE LET c == CHOOSE i \in d : \A j \in d : i <= j
                    text == TrimSpace(SubSeq(line, c + 3, Len(line)))
                IN /\ n >= 1
                   /\ calls[n] = [item |-> Comment(CommentTypeEndLine, text),
                                  from |-> c, to |-> Len(line)]
                   /\ \A k \in 1..(n - 1) :
                         calls[k].to <= c /\ ~IsEndLineComment(calls[k].item)
                   /\ IF api = "v1"
                      THEN recipe.Steps[1].Comments # <<>>
                           /\ recipe.Steps[1].Comments[Len(recipe.Steps[1].Comments)] = text
                      ELSE recipe.Steps[1][Len(recipe.Steps[1])]
                             = Comment(CommentTypeEndLine, text)

\* A text, then a comment that holds a marker.
C19_Witness ==
    /\ api = "v2" /\ pc = "done" /\ ret.err = Nil
    /\ input = << <<"a", "-", "-", "@">> >>
    /\ recipe.Steps = << <<asTextV2(newText(<<"a">>)),
                            Comment(CommentTypeEndLine, <<"@">>)>> >>

\* C20 as stated: a line that starts with "--" gives one Step, whose sole
\* content is the line Comment of the trimmed text after the prefix, and
\* no Step when the configuration ignores comments.
C20_LineComment ==
    (Len(input) = 1 /\ HasPrefix(input[1], commentsLinePrefix)) =>
        /\ pc \in {"scan", "done"}
        /\ ret.err = Nil
        /\ recipe.Steps = LineCommentSteps(input[1])

\* C20, amended: the same for a line that starts with "--" and, for
\* ParserV2, is not the front-matter delimiter "---" once its trailing
\* spaces are trimmed.
C20_LineCommentNoDelimiter ==
    (Len(input) = 1 /\ HasPrefix(input[1], commentsLinePrefix)
        /\ ~(api = "v2" /\ TrimRight(input[1], {" "}) = frontMatterDelimiter)) =>
        /\ pc \in {"scan", "done"}
        /\ ret.err = Nil
        /\ recipe.Steps = LineCommentSteps(input[1])

\* A line comment read by a ParserV2 that ignores comments: no Step.
C20_Witness ==
    /\ api = "v2" /\ pc = "done" /\ ret.err = Nil
    /\ p.config = {ItemTypeComment}
    /\ input = << <<"-", "-", " ", "c">> >>
    /\ recipe.Steps = <<>>

\* C21: exclusion by kind does not change scanning: for a direction line
\* and a set S of ignored item types, ParserV2 with IgnoreTypes = S fails
\* exactly when it fails with no ignored type, and otherwise its Step is
\* the Step it produces with no ignored type without the items whose kind
\* is in S (the same remaining items, values and order).
C21_IgnoreOnlyFilters ==
    (api = "v2" /\ OneDirectionLine) =>
        LET full == parseRecipeLineV2({}, TokLine)
        IN /\ pc = "panicked" <=> full.st = "panic"
           /\ ret.err # Nil <=> full.st = "err"
           /\ StepBuilt => recipe.Steps = <<WithoutKinds(full.step[1], p.config)>>

\* Text ignored: of a space and a timer only the timer is left.
C21_Witness ==
    /\ api = "v2" /\ pc = "done" /\ ret.err = Nil
    /\ p.config = {ItemTypeText}
    /\ input = << <<" ", "~", "{", "1", "%", "a", "}">> >>
    /\ recipe.Steps = << <<[T |-> "TimerV2", Type |-> ItemTypeTimer, Name |-> <<>>,
                             Quantity |-> Float(1), Unit |-> <<"a">>]>> >>

\* C22: a line without a marker character (and not blank) parses, by
\* ParserV2 with no ignored type, to the Step of exactly one Text item that
\* is the line as read, its leading and trailing white space included.
C22_PlainLineKept ==
    (api = "v2" /\ Len(input) = 1 /\ TrimSpace(input[1]) # <<>> /\ NoMarkers(input[1])) =>
        /\ pc \in {"scan", "done"}
        /\ ret.err = Nil
        /\ recipe.Steps = << <<asTextV2(newText(input[1]))>> >>

\* C23: for ParseString (V1) the lists Ingredients, Cookware and Timers of
\* the Step of a direction line hold the entities of the line in source
\* order, and Directions is the line in which the markup of an ingredient
\* or cookware is replaced by its name, the markup of a timer by
\* "<duration> <unit>" and a comment by nothing, trimmed of leading and
\* trailing white space.
C23_Directions ==
    (api = "v1" /\ StepBuilt) =>
        LET line == TokLine
            calls == TokCalls
            step == recipe.Steps[1]
            n == Len(calls)
        IN /\ n >= 1 /\ calls[1].from = 0 /\ calls[n].to = Len(line)
           /\ \A k \in 1..(n - 1) : calls[k].to = calls[k + 1].from
           /\ Len(step.Ingredients) = CountOf(calls, "Ingredient")
           /\ Len(step.Cookware) = CountOf(calls, "Cookware")
           /\ Len(step.Timers) = CountOf(calls, "Timer")
           /\ \A k \in 1..n :
                 LET m == Cardinality({j \in 1..k : calls[j].item.T = calls[k].item.T})
                 IN /\ calls[k].item.T = "Ingredient" => step.Ingredients[m] = calls[k].item
                    /\ calls[k].item.T = "Cookware" => step.Cookware[m] = calls[k].item
                    /\ calls[k].item.T = "Timer" => step.Timers[m] = calls[k].item
           /\ step.Directions = TrimSpace(Replaced(line, calls, step, n))

\* A timer between two spaces: its duration and unit, trimmed.
C23_Witness ==
    /\ api = "v1" /\ pc = "done" /\ ret.err = Nil
    /\ input = << <<" ", "~", "{", "1", "%", "a", "}", " ">> >>
    /\ recipe.Steps[1].Directions = <<"1", " ", "a">>
    /\ recipe.Steps[1].Timers = <<[T |-> "Timer", Name |-> <<>>, Duration |-> Float(1),
                                    Unit |-> <<"a">>]>>

\* C24: within one parse call of a new ParserV2 the front-matter buffer is
\* empty when the classifier enters InFrontMatter, so that in state
\* InFrontMatter the buffer, the text decoded at the closing "---", holds
\* exactly the lines read since the opening delimiter of the block, each
\* followed by a newline, also in a second block of the document.
C24_BufferIsOwnBlock ==
    (api = "v2" /\ pc = "scan" /\ p.inFrontMatter) =>
        p.frontMatter = BlockText(LastDelimiter + 1, Len(input))

\* The state part of C25.
C25_Parity ==
    api = "v2" =>
        (p.inFrontMatter <=> Cardinality({i \in 1..Len(input) : IsDelimiter(i)}) % 2 = 1)

\* C25: for a new ParserV2 and one parse call, after each line the
\* classifier is InFrontMatter exactly when an odd number of delimiter
\* lines ("---" once the trailing spaces are trimmed) has been read; a
\* closing delimiter whose block (the lines since its opening delimiter)
\* decodes merges the entries of that block into Metadata, leaves the Steps
\* and returns to Normal without an error.
C25_FrontMatterBlocks ==
    /\ []C25_Parity
    /\ [][(api = "v2" /\ pc = "scan" /\ p.inFrontMatter /\ Len(input') = Len(input) + 1
              /\ TrimRight(input'[Len(input')], {" "}) = frontMatterDelimiter) =>
             LET own == yamlDecode(BlockText(LastDelimiter + 1, Len(input)), recipe.Metadata)
             IN own.st = "ok" =>
                   /\ pc' = "scan"
                   /\ ret'.err = Nil
                   /\ ~p'.inFrontMatter
                   /\ recipe'.Metadata = own.val
                   /\ recipe'.Steps = recipe.Steps]_vars

\* C26 as stated: in state InFrontMatter a line that is not blank and not
\* the delimiter leaves Steps and Metadata as they are, raises no error and
\* keeps the state; the buffer grows by that line and a newline.
C26_BufferGrowsByLine ==
    [][(api = "v2" /\ pc = "scan" /\ p.inFrontMatter /\ Len(input') = Len(input) + 1
          /\ TrimSpace(input'[Len(input')]) # <<>>
          /\ TrimRight(input'[Len(input')], {" "}) # frontMatterDelimiter) =>
         /\ pc' = "scan"
         /\ ret' = ret
         /\ recipe' = recipe
         /\ p' = [p EXCEPT !.frontMatter = @ \o input'[Len(input')] \o <<"\n">>]]_vars

\* C26, amended: the same, the buffer growing by the line without its
\* trailing spaces and a newline.
C26_BufferGrowsByTrimmedLine ==
    [][(api = "v2" /\ pc = "scan" /\ p.inFrontMatter /\ Len(input') = Len(input) + 1
          /\ TrimSpace(input'[Len(input')]) # <<>>
          /\ TrimRight(input'[Len(input')], {" "}) # frontMatterDelimiter) =>
         /\ pc' = "scan"
         /\ ret' = ret
         /\ recipe' = recipe
         /\ p' = [p EXCEPT !.frontMatter =
                              @ \o TrimRight(input'[Len(input')], {" "}) \o <<"\n">>]]_vars

\* A metadata line without separator and an open block comment, read in
\* the front matter: no error, no Step, two lines in the buffer.
C26_Witness ==
    /\ api = "v2" /\ pc = "scan" /\ ret.err = Nil
    /\ input = << <<"-", "-", "-">>, <<">", ">", " ", "k">>, <<"[", "-">> >>
    /\ p.inFrontMatter
    /\ p.frontMatter = <<">", ">", " ", "k", "\n", "[", "-", "\n">>
    /\ recipe = EmptyRecipe

\* The first part of C27: the end index of findNodeEndIndex.
C27_EndIndex ==
    (api = "v1" /\ Len(input) = 1 /\ Len(input[1]) >= 2
        /\ input[1][1] \in {prefixIngredient, prefixCookware, prefixTimer}
        /\ input[1][2] # " ") =>
        /\ findNodeEndIndex(input[1]) = SpanEnd(input[1])
        /\ StepBuilt => TokCalls[1].to = SpanEnd(input[1])

\* C27: for a line that begins at a marker, findNodeEndIndex returns the
\* index just after the first "}" when that "}" comes before every other
\* marker character ("@", "#", "~", "["), and else the end of the single
\* word (the first space of the line, or its end); no later entity lies
\* within the span of the first one.
C27_NodeEnd ==
    /\ C27_EndIndex
    /\ (api = "v1" /\ Len(input) = 1 /\ Len(input[1]) >= 2
          /\ input[1][1] \in {prefixIngredient, prefixCookware, prefixTimer}
          /\ input[1][2] # " ") =>
          \A i \in 2..findNodeEndIndex(input[1]) : ~StartsEntity(input[1], i)

\* C28: with no ignored item type no Step holds two adjacent Text items or
\* a Text item with an empty value; the text of a direction line is
\* interrupted only by an entity or comment item, and a marker followed by
\* a space outside the spans of these items lies, with that space, within
\* one Text item.
C28_TextCoalesced ==
    (api = "v2" /\ pc \in {"scan", "done"} /\ ret.err = Nil) =>
        /\ \A s \in 1..Len(recipe.Steps) :
              /\ \A i \in 1..Len(recipe.Steps[s]) :
                    recipe.Steps[s][i].T = "TextV2" => recipe.Steps[s][i].Value # <<>>
              /\ \A i \in 1..(Len(recipe.Steps[s]) - 1) :
                    ~(recipe.Steps[s][i].T = "TextV2" /\ recipe.Steps[s][i + 1].T = "TextV2")
        /\ OneDirectionLine =>
              LET line == TokLine
                  calls == TokCalls
              IN \A i \in 0..(Len(line) - 2) :
                    (/\ line[i + 1] \in {prefixIngredient, prefixCookware, prefixTimer}
                     /\ line[i + 2] = " "
                     /\ ~\E k \in 1..Len(calls) :
                           calls[k].item.T # "Text" /\ calls[k].from <= i /\ i < calls[k].to)
                    => \E k \in 1..Len(calls) :
                          /\ calls[k].item.T = "Text"
                          /\ calls[k].from <= i /\ i + 1 < calls[k].to
                          /\ recipe.Steps[1][k] = asTextV2(newText(Slice(line, calls[k].from, calls[k].to)))

\* A marker before a space in the middle of a text: one Text item.
C28_Witness ==
    /\ api = "v2" /\ pc = "done" /\ ret.err = Nil
    /\ input = << <<"a", "@", " ", "a">> >>
    /\ recipe.Steps = << <<asTextV2(newText(<<"a", "@", " ", "a">>))>> >>

\* C29: whenever the span of an ingredient, cookware or timer of a
\* direction line holds a "{", the span ends with a "}", so that the brace
\* body is the text between the first "{" and this "}" and no character of
\* the span is dropped by the slicing up to len(s)-1.
C29_BraceSpanClosed ==
    StepBuilt =>
        \A k \in 1..Len(TokCalls) :
            (/\ TokCalls[k].item.T \in {"Ingredient", "Cookware", "Timer"}
             /\ \E i \in (TokCalls[k].from + 1)..TokCalls[k].to : TokLine[i] = "{")
            => TokLine[TokCalls[k].to] = "}"

\* The state part of C30: the result of a call that ended in the front
\* matter is the result for the lines before the opening delimiter.
C30_OnlyBeforeOpening ==
    (api = "v2" /\ pc = "done" /\ p.inFrontMatter) =>
        /\ ret = [recipe |-> <<recipe>>, err |-> Nil, errLine |-> 0]
        /\ ret = RunFresh(SubSeq(input, 1, LastDelimiter - 1), 0, EmptyRecipe,
                          NewParserV2(p.config))

\* C30: when the input of a new ParserV2 ends in state InFrontMatter (an
\* opening "---" without a closing one) the parse returns the document
\* and no error; the lines after the opening delimiter give no Step and no
\* Metadata entry: the document is the one of the lines before it.
C30_UnclosedFrontMatter ==
    /\ []C30_OnlyBeforeOpening
    /\ [][(api = "v2" /\ pc = "scan" /\ p.inFrontMatter /\ pc' = "done" /\ input' = input) =>
             ret' = [recipe |-> <<recipe>>, err |-> Nil, errLine |-> 0]]_vars

\* A metadata line, an opening delimiter and a mapping line, then the end
\* of the input: the document holds the metadata line alone.
C30_Witness ==
    /\ api = "v2" /\ pc = "done" /\ p.inFrontMatter
    /\ input = << <<">", ">", " ", "k", ":", " ", "w">>, <<"-", "-", "-">>,
                  <<"k", ":", " ", "v">> >>
    /\ ret = [recipe |-> <<[Steps |-> <<>>, Metadata |-> (<<"k">> :> <<"w">>)]>>,
              err |-> Nil, errLine |-> 0]

=============================================================================
